---------------------------- MODULE Spec2Model ----------------------------
(***************************************************************************)
(* Lumina JSON (razraj/json-toolkit-web): the editor session of App.tsx,   *)
(* its format engine (escape / unescape / format / minify / mode switch),  *)
(* the parse effect, the AI collaborators' request guard and the JsonTree  *)
(* view (path addressing, expand/collapse, selection).                     *)
(*                                                                         *)
(* A JavaScript string is a sequence of one-character TLA+ strings; the    *)
(* control characters are named (LF, CR, TAB, BS, FF).  A nullable string  *)
(* (error, notification, generatedTypes) is a record [isNull, str].  A     *)
(* JSON value is a record [type, num, str, keys, items]; JavaScript's null *)
(* is the value of type "null", for a JSON null and for "no value" alike,  *)
(* as in the program.                                                      *)
(***************************************************************************)
EXTENDS Naturals, Sequences, FiniteSets, TLC

\* --------------------------------------------------------------- binding
\* The one element of a singleton set. "The({e(x) : x \in {v}})" is
\* "LET x == v IN e(x)" with v evaluated once, before e: the definitions
\* below bind this way whatever they use more than once.
The(S) == CHOOSE x \in S : TRUE

\* ------------------------------------------------------------ characters
Range(f) == {f[i] : i \in DOMAIN f}
BSL == "\\"
QUOTE == "\""
LF == "<LF>"
CR == "<CR>"
TAB == "<TAB>"
BS == "<BS>"
FF == "<FF>"
SP == " "

\* The whitespace of the JSON grammar, as JSON.parse skips it.
JsonWhitespace == {SP, LF, CR, TAB}
\* The characters String.prototype.trim removes (of this alphabet).
TrimWhitespace == {SP, LF, CR, TAB, FF}
\* Characters below U+0020, which JSON.parse rejects inside a string literal.
ControlChars == {LF, CR, TAB, BS, FF}
Digits == <<"0", "1", "2", "3", "4", "5", "6", "7", "8", "9">>
DigitChars == {Digits[i] : i \in 1..10}
DigitValue(c) == (CHOOSE i \in 1..10 : Digits[i] = c) - 1

RECURSIVE NumStr(_)
\* String(n) for a non-negative integer n.
NumStr(n) == IF n < 10 THEN <<Digits[n + 1]>>
             ELSE NumStr(n \div 10) \o <<Digits[(n % 10) + 1]>>

\* ------------------------------------------------ String.prototype.replace
RECURSIVE ReplaceCharFrom(_, _, _, _)
ReplaceCharFrom(str, i, c, rep) ==
  IF i > Len(str) THEN <<>>
  ELSE (IF str[i] = c THEN rep ELSE <<str[i]>>) \o ReplaceCharFrom(str, i + 1, c, rep)
\* str.replace(/c/g, rep) for a one-character pattern c.
ReplaceChar(str, c, rep) == The({ReplaceCharFrom(s, 1, c, rep) : s \in {str}})

RECURSIVE ReplacePairFrom(_, _, _, _, _)
ReplacePairFrom(str, i, a, b, rep) ==
  IF i > Len(str) THEN <<>>
  ELSE IF i < Len(str) /\ str[i] = a /\ str[i + 1] = b
       THEN rep \o ReplacePairFrom(str, i + 2, a, b, rep)
       ELSE <<str[i]>> \o ReplacePairFrom(str, i + 1, a, b, rep)
\* str.replace(/ab/g, rep) for a two-character pattern: leftmost matches,
\* not overlapping, the scan resuming after each match.
ReplacePair(str, a, b, rep) == The({ReplacePairFrom(s, 1, a, b, rep) : s \in {str}})

\* An escapeString whose backslash pass runs last.
escapeStringBackslashLast(str) ==
  LET s1 == ReplaceChar(str, QUOTE, <<BSL, QUOTE>>)
      s2 == ReplaceChar(s1, LF, <<BSL, "n">>)
      s3 == ReplaceChar(s2, CR, <<BSL, "r">>)
      s4 == ReplaceChar(s3, TAB, <<BSL, "t">>)
      s5 == ReplaceChar(s4, BS, <<BSL, "b">>)
      s6 == ReplaceChar(s5, FF, <<BSL, "f">>)
  IN  ReplaceChar(s6, BSL, <<BSL, BSL>>)

\* escapeString of App.tsx: seven replace passes, in the source's order.
escapeString(str) ==
  LET s1 == ReplaceChar(str, BSL, <<BSL, BSL>>)
      s2 == ReplaceChar(s1, QUOTE, <<BSL, QUOTE>>)
      s3 == ReplaceChar(s2, LF, <<BSL, "n">>)
      s4 == ReplaceChar(s3, CR, <<BSL, "r">>)
      s5 == ReplaceChar(s4, TAB, <<BSL, "t">>)
      s6 == ReplaceChar(s5, BS, <<BSL, "b">>)
  IN  ReplaceChar(s6, FF, <<BSL, "f">>)

\* unescapeString of App.tsx: seven replace passes, in the source's order.
unescapeString(str) ==
  LET s1 == ReplacePair(str, BSL, "n", <<LF>>)
      s2 == ReplacePair(s1, BSL, "r", <<CR>>)
      s3 == ReplacePair(s2, BSL, "t", <<TAB>>)
      s4 == ReplacePair(s3, BSL, "b", <<BS>>)
      s5 == ReplacePair(s4, BSL, "f", <<FF>>)
      s6 == ReplacePair(s5, BSL, QUOTE, <<QUOTE>>)
  IN  ReplacePair(s6, BSL, BSL, <<BSL>>)

\* !str.trim(): the string holds nothing but whitespace.
IsBlank(str) == \A c \in Range(str) : c \in TrimWhitespace

\* ------------------------------------------------------------ JSON values
null == [type |-> "null", num |-> 0, str |-> <<>>, keys |-> <<>>, items |-> <<>>]
JBool(b) == [type |-> "boolean", num |-> IF b THEN 1 ELSE 0, str |-> <<>>, keys |-> <<>>, items |-> <<>>]
JNum(n) == [type |-> "number", num |-> n, str |-> <<>>, keys |-> <<>>, items |-> <<>>]
JStr(s) == [type |-> "string", num |-> 0, str |-> s, keys |-> <<>>, items |-> <<>>]
JArr(xs) == [type |-> "array", num |-> 0, str |-> <<>>, keys |-> <<>>, items |-> xs]
JObj(ks, xs) == [type |-> "object", num |-> 0, str |-> <<>>, keys |-> ks, items |-> xs]

\* value !== null && typeof value === 'object'
isObject(value) == value.type \in {"array", "object"}
isArray(value) == value.type = "array"
\* Object.keys(value): the index strings of an array, the stored keys of an object.
ObjectKeys(value) ==
  IF value.type = "array" THEN [i \in 1..Len(value.items) |-> NumStr(i - 1)]
  ELSE value.keys
\* value[key] for a key of Object.keys(value).
Member(value, key) ==
  LET ks == ObjectKeys(value)
  IN  value.items[CHOOSE i \in 1..Len(ks) : ks[i] = key]

\* An integer index property name ("0", "7", "12"; not "01", not "").
IsArrayIndex(k) ==
  /\ k # <<>>
  /\ \A i \in 1..Len(k) : k[i] \in DigitChars
  /\ (Len(k) > 1 => k[1] # "0")
RECURSIVE IndexValue(_)
IndexValue(k) == IF k = <<>> THEN 0
                 ELSE 10 * IndexValue(SubSeq(k, 1, Len(k) - 1)) + DigitValue(k[Len(k)])

\* obj[k] = v on an ordinary JavaScript object: an existing key keeps its
\* place; a new integer index goes among the integer indices in ascending
\* order, which precede the other keys; any other new key goes last.
ObjPut(obj, k, v) ==
  The({ IF \E i \in 1..Len(ks) : ks[i] = k
        THEN JObj(ks, [o.items EXCEPT ![CHOOSE i \in 1..Len(ks) : ks[i] = k] = v])
        ELSE The({ JObj(SubSeq(ks, 1, at) \o <<k>> \o SubSeq(ks, at + 1, Len(ks)),
                        SubSeq(o.items, 1, at) \o <<v>> \o SubSeq(o.items, at + 1, Len(ks)))
                   : at \in {IF IsArrayIndex(k)
                             THEN Cardinality({j \in 1..Len(ks) :
                                    IsArrayIndex(ks[j]) /\ IndexValue(ks[j]) < IndexValue(k)})
                             ELSE Len(ks)} })
        : o \in {obj}, ks \in {obj.keys} })

\* ------------------------------------------------------------- JSON.parse
\* A parse step's result: ok with the value and the index after it, or a
\* failure at index pos (Len + 1: the input ended).
Ok(v, i) == [ok |-> TRUE, val |-> v, pos |-> i]
Fail(i) == [ok |-> FALSE, val |-> null, pos |-> i]

RECURSIVE SkipWs(_, _)
SkipWs(s, i) == IF i <= Len(s) /\ s[i] \in JsonWhitespace THEN SkipWs(s, i + 1) ELSE i

\* The character a two-character escape of a string literal stands for.
EscapeChars == {QUOTE, BSL, "/", "b", "f", "n", "r", "t"}
Unescaped(c) == CASE c = "b" -> BS [] c = "f" -> FF [] c = "n" -> LF
                  [] c = "r" -> CR [] c = "t" -> TAB [] OTHER -> c

RECURSIVE ParseChars(_, _, _)
\* The characters of a string literal from index i (after the opening quote).
ParseChars(s, i, acc) ==
  IF i > Len(s) THEN Fail(i)
  ELSE IF s[i] = QUOTE THEN Ok(JStr(acc), i + 1)
  ELSE IF s[i] = BSL
       THEN IF i + 1 > Len(s) THEN Fail(i + 1)
            ELSE IF s[i + 1] \in EscapeChars
                 THEN ParseChars(s, i + 2, Append(acc, Unescaped(s[i + 1])))
                 ELSE Fail(i + 1)
  ELSE IF s[i] \in ControlChars THEN Fail(i)
  ELSE ParseChars(s, i + 1, Append(acc, s[i]))

RECURSIVE ParseDigits(_, _, _)
ParseDigits(s, i, n) ==
  IF i <= Len(s) /\ s[i] \in DigitChars
  THEN ParseDigits(s, i + 1, 10 * n + DigitValue(s[i]))
  ELSE Ok(JNum(n), i)
\* A number: 0, or a non-zero digit and more digits (the alphabet of the
\* inputs has no sign, fraction or exponent).
ParseNumber(s, i) == IF s[i] = "0" THEN Ok(JNum(0), i + 1) ELSE ParseDigits(s, i, 0)

RECURSIVE ParseWord(_, _, _, _)
\* One of the literals null, true, false from index i: fails at the first
\* character off.
ParseWord(s, i, word, v) ==
  IF word = <<>> THEN Ok(v, i)
  ELSE IF i > Len(s) \/ s[i] # Head(word) THEN Fail(i)
  ELSE ParseWord(s, i + 1, Tail(word), v)

RECURSIVE ParseValue(_, _), ParseElements(_, _, _), ParseMembers(_, _, _)
\* A value from index i, after whitespace.
ParseValue(s, i) ==
  The({ IF j > Len(s) THEN Fail(j)
        ELSE IF s[j] = "{"
             THEN The({ IF k <= Len(s) /\ s[k] = "}" THEN Ok(JObj(<<>>, <<>>), k + 1)
                        ELSE ParseMembers(s, k, JObj(<<>>, <<>>))
                        : k \in {SkipWs(s, j + 1)} })
        ELSE IF s[j] = "["
             THEN The({ IF k <= Len(s) /\ s[k] = "]" THEN Ok(JArr(<<>>), k + 1)
                        ELSE ParseElements(s, k, <<>>)
                        : k \in {SkipWs(s, j + 1)} })
        ELSE IF s[j] = QUOTE THEN ParseChars(s, j + 1, <<>>)
        ELSE IF s[j] \in DigitChars THEN ParseNumber(s, j)
        ELSE IF s[j] = "n" THEN ParseWord(s, j, <<"n", "u", "l", "l">>, null)
        ELSE IF s[j] = "t" THEN ParseWord(s, j, <<"t", "r", "u", "e">>, JBool(TRUE))
        ELSE IF s[j] = "f" THEN ParseWord(s, j, <<"f", "a", "l", "s", "e">>, JBool(FALSE))
        ELSE Fail(j)
        : j \in {SkipWs(s, i)} })

\* The elements of an array from index i, acc being those before.
ParseElements(s, i, acc) ==
  The({ IF ~r.ok THEN r
        ELSE The({ IF k > Len(s) THEN Fail(k)
                   ELSE IF s[k] = "," THEN ParseElements(s, k + 1, xs)
                   ELSE IF s[k] = "]" THEN Ok(JArr(xs), k + 1)
                   ELSE Fail(k)
                   : k \in {SkipWs(s, r.pos)}, xs \in {Append(acc, r.val)} })
        : r \in {ParseValue(s, i)} })

\* The members of an object from index i, obj holding those before.
ParseMembers(s, i, obj) ==
  The({ IF j > Len(s) \/ s[j] # QUOTE THEN Fail(j)
        ELSE The({ IF ~key.ok THEN key
                   ELSE The({ IF c > Len(s) \/ s[c] # ":" THEN Fail(c)
                              ELSE The({ IF ~r.ok THEN r
                                         ELSE The({ IF k > Len(s) THEN Fail(k)
                                                    ELSE IF s[k] = "," THEN ParseMembers(s, k + 1, o)
                                                    ELSE IF s[k] = "}" THEN Ok(o, k + 1)
                                                    ELSE Fail(k)
                                                    : k \in {SkipWs(s, r.pos)},
                                                      o \in {ObjPut(obj, key.val.str, r.val)} })
                                         : r \in {ParseValue(s, c + 1)} })
                              : c \in {SkipWs(s, key.pos)} })
                   : key \in {ParseChars(s, j + 1, <<>>)} })
        : j \in {SkipWs(s, i)} })

\* JSON.parse(text): one value, then nothing but whitespace.
ParseAll(s) ==
  The({ IF ~r.ok THEN r
        ELSE The({ IF k <= Len(s) THEN Fail(k) ELSE r : k \in {SkipWs(s, r.pos)} })
        : r \in {ParseValue(s, 1)} })
JSONparse(text) == The({ParseAll(s) : s \in {text}})
\* JSON.parse(text) returns (does not throw).
Parses(text) == JSONparse(text).ok
\* err.message of the SyntaxError JSON.parse(text) throws: the unexpected
\* token and its (0-based) position, or the end of the input.
ErrorMessage(text) ==
  The({ The({ IF r.pos > Len(s) THEN <<"Unexpected end of JSON input">>
              ELSE <<"Unexpected token ", s[r.pos], " in JSON at position ">> \o NumStr(r.pos - 1)
              : r \in {ParseAll(s)} })
        : s \in {text} })

\* --------------------------------------------------------- JSON.stringify
\* One character of a string literal as JSON.stringify writes it.
QuoteChar(c) == CASE c = QUOTE -> <<BSL, QUOTE>> [] c = BSL -> <<BSL, BSL>>
                  [] c = LF -> <<BSL, "n">> [] c = CR -> <<BSL, "r">>
                  [] c = TAB -> <<BSL, "t">> [] c = BS -> <<BSL, "b">>
                  [] c = FF -> <<BSL, "f">> [] OTHER -> <<c>>
RECURSIVE QuoteChars(_)
QuoteChars(str) == IF str = <<>> THEN <<>> ELSE QuoteChar(Head(str)) \o QuoteChars(Tail(str))
QuoteString(str) == <<QUOTE>> \o QuoteChars(str) \o <<QUOTE>>

Spaces(n) == [i \in 1..n |-> SP]

RECURSIVE Stringify(_, _, _), StringifyEntries(_, _, _, _)
\* JSON.stringify(value, null, indent) at nesting depth level; indent 0 is
\* JSON.stringify(value).
Stringify(value, indent, level) ==
  CASE value.type = "null" -> <<"n", "u", "l", "l">>
    [] value.type = "boolean" -> IF value.num = 1 THEN <<"t", "r", "u", "e">>
                                 ELSE <<"f", "a", "l", "s", "e">>
    [] value.type = "number" -> NumStr(value.num)
    [] value.type = "string" -> QuoteString(value.str)
    [] OTHER ->
         LET open == IF isArray(value) THEN "[" ELSE "{"
             close == IF isArray(value) THEN "]" ELSE "}"
             break(l) == IF indent = 0 THEN <<>> ELSE <<LF>> \o Spaces(indent * l)
         IN  IF value.items = <<>> THEN <<open, close>>
             ELSE <<open>> \o break(level + 1) \o StringifyEntries(value, 1, indent, level + 1)
                    \o break(level) \o <<close>>

\* The entries i.. of a composite value, separated by commas (and, with an
\* indent, line breaks); an object's entry is "key": value.
StringifyEntries(value, i, indent, level) ==
  LET entry == (IF isArray(value) THEN <<>>
                ELSE QuoteString(value.keys[i]) \o <<":">> \o (IF indent = 0 THEN <<>> ELSE <<SP>>))
               \o Stringify(value.items[i], indent, level)
  IN  IF i = Len(value.items) THEN entry
      ELSE entry \o <<",">> \o (IF indent = 0 THEN <<>> ELSE <<LF>> \o Spaces(indent * level))
                 \o StringifyEntries(value, i + 1, indent, level)

\* JSON.stringify(value, null, 2) and JSON.stringify(value).
Pretty(value) == The({Stringify(v, 2, 0) : v \in {value}})
Compact(value) == The({Stringify(v, 0, 0) : v \in {value}})

\* ------------------------------------------------------- nullable strings
Null == [isNull |-> TRUE, str |-> <<>>]
Some(str) == [isNull |-> FALSE, str |-> str]
\* JavaScript truthiness of a string | null.
Truthy(x) == ~x.isNull /\ x.str # <<>>

\* ------------------------------------------------------------------ bounds
\* The longest buffer handleEscape may produce (escaping doubles backslashes
\* without end).
MaxLen == 16
\* The longest string the specification of the escape functions starts from.
MaxEscLen == 2

\* ------------------------------------------------------------------ inputs
\* Texts the user types, pastes or uploads.
T_NESTED == <<"{", QUOTE, "a", QUOTE, ":", "[", "{", QUOTE, "b", QUOTE, ":", "1", "}", "]", "}">>
T_ARRAY == <<"[", "1", ",", "2", ",", "3", "]">>
T_ESCAPED == <<"{", BSL, QUOTE, "a", BSL, QUOTE, ":", "1", "}">>
T_MALFORMED == <<"{", "a", ":", "1">>
T_HALF == <<"[", BSL, QUOTE>>
T_EMPTYKEY == <<"{", QUOTE, QUOTE, ":", "1", "}">>
T_NULL == <<"n", "u", "l", "l">>
T_INTKEYS == <<"{", QUOTE, "b", QUOTE, ":", "1", ",", QUOTE, "2", QUOTE, ":", "2", "}">>
T_SIBLINGS == <<"[", "[", "1", "]", ",", "[", "2", "]", "]">>
Texts == {T_ARRAY, T_ESCAPED, T_MALFORMED, T_HALF}
\* Files the user uploads.
Files == {T_ARRAY, T_MALFORMED}
\* Documents the tree view is followed on.
Documents == {T_NESTED, T_ARRAY, T_EMPTYKEY, T_NULL, T_INTKEYS, T_SIBLINGS}
\* The characters escapeString and unescapeString treat, and the strings of
\* them up to a length.
EscapeAlphabet == {BSL, QUOTE, "n", "r", "t", "b", "f", LF, CR, TAB, BS, FF}
Strings(n) == UNION {[1..k -> EscapeAlphabet] : k \in 0..n}
\* What the collaborators resolve with: GenerationResult of types.ts.
RepairResults == {[content |-> T_ARRAY, error |-> Null],
                  [content |-> <<>>, error |-> Some(<<"API Key is missing.">>)]}
TypesResults == {[content |-> <<"interface Root {}">>, error |-> Null],
                 [content |-> <<>>, error |-> Some(<<"API Key is missing.">>)]}

\* The demo document the session starts with, JSON.stringify(demo, null, 2),
\* cut down to one object holding an array holding an object.
DEMO_JSON == Pretty(JSONparse(T_NESTED).val)

\* ------------------------------------------------------------------- state
VARIABLES
  jsonInput,       \* the text buffer
  parsedData,      \* the last successful parse (null: none)
  selectedData,    \* the selected subtree (null: none)
  error,           \* the parse error's message, or Null
  isProcessing,    \* an AI request is outstanding
  notification,    \* the toast's text, or Null
  aiMode,          \* "repair", "types" or "null"
  generatedTypes,  \* the generated interfaces, or Null
  formatMode,      \* "pretty", "raw" or "tree"
  isExpanded,      \* the mounted JsonTree instances of the main tree, by
                   \* position (the keys from the root), each with its flag
  repairCalls,     \* fixMalformedJson calls not yet resolved
  typesCalls       \* generateTypeScriptInterfaces calls not yet resolved

vars == <<jsonInput, parsedData, selectedData, error, isProcessing, notification,
          aiMode, generatedTypes, formatMode, isExpanded, repairCalls, typesCalls>>

\* ------------------------------------------------------------ the JsonTree
isEmpty(value) == isObject(value) /\ Len(ObjectKeys(value)) = 0

RECURSIVE ValueAt(_, _)
\* The value of the node at a position of the tree of value.
ValueAt(value, pos) ==
  IF pos = <<>> THEN value ELSE ValueAt(Member(value, Head(pos)), Tail(pos))

\* A node's useState flag: the stored one of a mounted instance, true (the
\* initial state) for an instance mounted now.
ExpandedIn(old, pos) == IF pos \in DOMAIN old THEN old[pos] ELSE TRUE

RECURSIVE Instances(_, _, _)
\* The JsonTree instances a render of value at pos mounts: the node, and the
\* children of an expanded, non-empty composite node.
Instances(value, pos, old) ==
  {pos} \cup
  (IF isObject(value) /\ ~isEmpty(value) /\ ExpandedIn(old, pos)
   THEN UNION {Instances(Member(value, k), Append(pos, k), old) : k \in Range(ObjectKeys(value))}
   ELSE {})

\* The main tree after a render of value: instances at positions mounted
\* before keep their state (same component, same key), the others start
\* expanded, and those no longer rendered are unmounted.
Mount(value, old) == [pos \in Instances(value, <<>>, old) |-> ExpandedIn(old, pos)]
NoTree == [pos \in {} |-> TRUE]

RECURSIVE NodeProps(_, _)
\* The props keyName and path of the JsonTree at pos in the tree of value,
\* and the currentPath it computes. The root has no keyName and path ''.
NodeProps(value, pos) ==
  IF pos = <<>> THEN [keyName |-> <<>>, path |-> <<>>, currentPath |-> <<>>]
  ELSE The({ The({ [keyName |-> key, path |-> childPath,
                    currentPath |-> IF key # <<>>
                                    THEN (IF childPath # <<>> THEN childPath \o <<".">> \o key
                                          ELSE key)
                                    ELSE childPath]
                   : childPath \in {IF isArray(ValueAt(value, SubSeq(pos, 1, Len(pos) - 1)))
                                    THEN parent.currentPath \o <<"[">> \o key \o <<"]">>
                                    ELSE IF parent.currentPath # <<>>
                                         THEN parent.currentPath \o <<".">> \o key
                                         ELSE key} })
             : key \in {pos[Len(pos)]},
               parent \in {NodeProps(value, SubSeq(pos, 1, Len(pos) - 1))} })

\* Which view the editor area shows.
TypesViewShown == Truthy(generatedTypes)
TreeModeShown == ~TypesViewShown /\ formatMode = "tree"
EditorShown == ~TypesViewShown /\ formatMode # "tree"
TreeErrorShown == TreeModeShown /\ Truthy(error)
TreeShown == TreeModeShown /\ ~Truthy(error) /\ parsedData # null

\* -------------------------------------------------------------------- Init
\* The session as constructed and mounted with text in the buffer: the
\* useState defaults, then the parse effect's first run.
InitWith(text) ==
  /\ jsonInput = text
  /\ parsedData = (IF Parses(jsonInput) THEN JSONparse(jsonInput).val ELSE null)
  /\ selectedData = parsedData
  /\ error = (IF IsBlank(jsonInput) \/ Parses(jsonInput) THEN Null
              ELSE Some(ErrorMessage(jsonInput)))
  /\ isProcessing = FALSE
  /\ notification = Null
  /\ aiMode = "null"
  /\ generatedTypes = Null
  /\ formatMode = "pretty"
  /\ isExpanded = NoTree
  /\ repairCalls = 0
  /\ typesCalls = 0

\* The session starts with the demo document.
Init == InitWith(DEMO_JSON)

\* ------------------------------------------------- what follows a handler
\* A parse effect that, on success, sets the value and clears the error
\* but leaves the selection where it was.
ParseEffectKeepsSelection(pd, sd, err) ==
  IF jsonInput' = jsonInput
  THEN parsedData' = pd /\ selectedData' = sd /\ error' = err
  ELSE IF IsBlank(jsonInput')
  THEN parsedData' = null /\ selectedData' = null /\ error' = Null
  ELSE \E parsed \in {JSONparse(jsonInput')} :
         IF parsed.ok
         THEN parsedData' = parsed.val /\ selectedData' = sd /\ error' = Null
         ELSE parsedData' = pd /\ selectedData' = sd /\ error' = Some(ErrorMessage(jsonInput'))

\* A parse effect that, on success, sets the value and the selection but
\* leaves the error where it was.
ParseEffectKeepsError(pd, sd, err) ==
  IF jsonInput' = jsonInput
  THEN parsedData' = pd /\ selectedData' = sd /\ error' = err
  ELSE IF IsBlank(jsonInput')
  THEN parsedData' = null /\ selectedData' = null /\ error' = Null
  ELSE \E parsed \in {JSONparse(jsonInput')} :
         IF parsed.ok
         THEN parsedData' = parsed.val /\ selectedData' = parsed.val /\ error' = err
         ELSE parsedData' = pd /\ selectedData' = sd /\ error' = Some(ErrorMessage(jsonInput'))

\* A parse effect that, on failure, drops the value and the selection.
ParseEffectDropsValue(pd, sd, err) ==
  IF jsonInput' = jsonInput
  THEN parsedData' = pd /\ selectedData' = sd /\ error' = err
  ELSE IF IsBlank(jsonInput')
  THEN parsedData' = null /\ selectedData' = null /\ error' = Null
  ELSE \E parsed \in {JSONparse(jsonInput')} :
         IF parsed.ok
         THEN parsedData' = parsed.val /\ selectedData' = parsed.val /\ error' = Null
         ELSE parsedData' = null /\ selectedData' = null
              /\ error' = Some(ErrorMessage(jsonInput'))

\* The parse effect (useEffect on [jsonInput]), run after a handler that
\* left pd, sd and err in parsedData, selectedData and error: it runs only
\* when the buffer has changed.
ParseEffect(pd, sd, err) ==
  IF jsonInput' = jsonInput
  THEN parsedData' = pd /\ selectedData' = sd /\ error' = err
  ELSE IF IsBlank(jsonInput')
  THEN parsedData' = null /\ selectedData' = null /\ error' = Null
  ELSE \E parsed \in {JSONparse(jsonInput')} :
         IF parsed.ok
         THEN /\ parsedData' = parsed.val
              /\ selectedData' = parsed.val
              /\ error' = Null
         ELSE /\ parsedData' = pd
              /\ selectedData' = sd
              /\ error' = Some(ErrorMessage(jsonInput'))

\* The render that follows: the main tree is mounted when the tree view is
\* shown, from the instances in old.
Render(old) ==
  isExpanded' = IF TreeShown' THEN The({Mount(parsedData', o) : o \in {old}}) ELSE NoTree

\* A handler that sets the buffer to text and nothing else but what the
\* caller states.
SetJsonInput(text) ==
  /\ jsonInput' = text
  /\ ParseEffect(parsedData, selectedData, error)

\* showNotification(msg)
showNotification(msg) == notification' = Some(msg)
\* The timer showNotification starts: it clears the toast.
NotificationTimeout ==
  /\ ~notification.isNull
  /\ notification' = Null
  /\ UNCHANGED <<jsonInput, parsedData, selectedData, error, isProcessing, aiMode,
                 generatedTypes, formatMode, isExpanded, repairCalls, typesCalls>>

\* ------------------------------------------------------ escape / unescape
handleEscape ==
  /\ Len(escapeString(jsonInput)) <= MaxLen
  /\ SetJsonInput(escapeString(jsonInput))
  /\ showNotification(<<"Text Escaped">>)
  /\ UNCHANGED <<isProcessing, aiMode, generatedTypes, formatMode, repairCalls, typesCalls>>
  /\ Render(isExpanded)

handleUnescape ==
  /\ SetJsonInput(unescapeString(jsonInput))
  /\ showNotification(<<"Text Unescaped">>)
  /\ UNCHANGED <<isProcessing, aiMode, generatedTypes, formatMode, repairCalls, typesCalls>>
  /\ Render(isExpanded)

\* --------------------------------------------------------- format / minify
\* What a format handler leaves in jsonInput, formatMode and notification.
Outcome(text, mode, msg) == [jsonInput |-> text, formatMode |-> mode, notification |-> msg]

\* A format handler that, when the recovery fails too, leaves the unescaped
\* text in the buffer.
handleFormatKeepsUnescaped(currentInput) ==
  The({ IF parsed.ok
        THEN Outcome(Pretty(parsed.val), "pretty", Some(<<"JSON Formatted">>))
        ELSE The({ IF JSONparse(unescaped).ok
                   THEN Outcome(Pretty(JSONparse(unescaped).val), "pretty",
                                Some(<<"Auto-unescaped & Formatted">>))
                   ELSE Outcome(unescaped, formatMode, Some(<<"Cannot format invalid JSON">>))
                   : unescaped \in {unescapeString(currentInput)} })
        : parsed \in {JSONparse(currentInput)} })

\* handleFormat(currentInput): pretty-print the parse, or else the parse of
\* the unescaped text, or else report.
handleFormat(currentInput) ==
  The({ IF parsed.ok
        THEN Outcome(Pretty(parsed.val), "pretty", Some(<<"JSON Formatted">>))
        ELSE The({ IF recovered.ok
                   THEN Outcome(Pretty(recovered.val), "pretty",
                                Some(<<"Auto-unescaped & Formatted">>))
                   ELSE Outcome(jsonInput, formatMode, Some(<<"Cannot format invalid JSON">>))
                   : recovered \in {JSONparse(unescapeString(currentInput))} })
        : parsed \in {JSONparse(currentInput)} })

\* A minify handler with no recovery pass.
handleMinifyNoRecovery(currentInput) ==
  The({ IF parsed.ok
        THEN Outcome(Compact(parsed.val), "raw", Some(<<"JSON Minified">>))
        ELSE Outcome(jsonInput, formatMode, Some(<<"Cannot minify invalid JSON">>))
        : parsed \in {JSONparse(currentInput)} })

\* handleMinify(currentInput): the same with the compact serialization.
handleMinify(currentInput) ==
  The({ IF parsed.ok
        THEN Outcome(Compact(parsed.val), "raw", Some(<<"JSON Minified">>))
        ELSE The({ IF recovered.ok
                   THEN Outcome(Compact(recovered.val), "raw",
                                Some(<<"Auto-unescaped & Minified">>))
                   ELSE Outcome(jsonInput, formatMode, Some(<<"Cannot minify invalid JSON">>))
                   : recovered \in {JSONparse(unescapeString(currentInput))} })
        : parsed \in {JSONparse(currentInput)} })

\* A mode switch whose recovery into pretty stops at the first
\* setJsonInput: the unescaped text, not its pretty form.
toggleFormatKeepsUnescaped(mode) ==
  IF mode = formatMode /\ mode # "tree"
  THEN Outcome(jsonInput, formatMode, notification)
  ELSE The({ The({ IF Truthy(error) /\ mode \in {"pretty", "tree"} /\ parsed.ok
                   THEN IF mode = "pretty"
                        THEN Outcome(unescaped, "pretty", Some(<<"Auto-unescaped JSON">>))
                        ELSE Outcome(unescaped, "tree", Some(<<"Auto-unescaped for Tree View">>))
                   ELSE IF mode = "tree" THEN Outcome(jsonInput, "tree", notification)
                   ELSE IF mode = "pretty" THEN handleFormat(jsonInput)
                   ELSE handleMinify(jsonInput)
                   : parsed \in {JSONparse(unescaped)} })
             : unescaped \in {unescapeString(jsonInput)} })

\* A mode switch that, into tree with no error, leaves the pretty form of
\* the buffer in the buffer.
toggleFormatTreeFormats(mode) ==
  IF mode = formatMode /\ mode # "tree"
  THEN Outcome(jsonInput, formatMode, notification)
  ELSE The({ The({ IF Truthy(error) /\ mode \in {"pretty", "tree"} /\ parsed.ok
                   THEN IF mode = "pretty"
                        THEN Outcome(Pretty(parsed.val), "pretty", Some(<<"Auto-unescaped JSON">>))
                        ELSE Outcome(unescaped, "tree", Some(<<"Auto-unescaped for Tree View">>))
                   ELSE IF mode = "tree"
                        THEN IF JSONparse(jsonInput).ok
                             THEN Outcome(Pretty(JSONparse(jsonInput).val), "tree", notification)
                             ELSE Outcome(jsonInput, "tree", notification)
                   ELSE IF mode = "pretty" THEN handleFormat(jsonInput)
                   ELSE handleMinify(jsonInput)
                   : parsed \in {JSONparse(unescaped)} })
             : unescaped \in {unescapeString(jsonInput)} })

\* A mode switch whose recovery block serves pretty only.
toggleFormatNoTreeRecovery(mode) ==
  IF mode = formatMode /\ mode # "tree"
  THEN Outcome(jsonInput, formatMode, notification)
  ELSE The({ The({ IF Truthy(error) /\ mode = "pretty" /\ parsed.ok
                   THEN Outcome(Pretty(parsed.val), "pretty", Some(<<"Auto-unescaped JSON">>))
                   ELSE IF mode = "tree" THEN Outcome(jsonInput, "tree", notification)
                   ELSE IF mode = "pretty" THEN handleFormat(jsonInput)
                   ELSE handleMinify(jsonInput)
                   : parsed \in {JSONparse(unescaped)} })
             : unescaped \in {unescapeString(jsonInput)} })

\* toggleFormat(mode): what it leaves in jsonInput, formatMode, notification.
toggleFormat(mode) ==
  IF mode = formatMode /\ mode # "tree"
  THEN Outcome(jsonInput, formatMode, notification)
  ELSE The({ The({ IF Truthy(error) /\ mode \in {"pretty", "tree"} /\ parsed.ok
                   THEN IF mode = "pretty"
                        THEN Outcome(Pretty(parsed.val), "pretty", Some(<<"Auto-unescaped JSON">>))
                        ELSE Outcome(unescaped, "tree", Some(<<"Auto-unescaped for Tree View">>))
                   ELSE IF mode = "tree" THEN Outcome(jsonInput, "tree", notification)
                   ELSE IF mode = "pretty" THEN handleFormat(jsonInput)
                   ELSE handleMinify(jsonInput)
                   : parsed \in {JSONparse(unescaped)} })
             : unescaped \in {unescapeString(jsonInput)} })

Modes == {"raw", "pretty", "tree"}
\* A click on Raw, Beautify or Tree View (or, for pretty, on Return to
\* Editor in the tree's error view).
ToggleFormat(mode) ==
  /\ \E outcome \in {toggleFormat(mode)} :
       /\ jsonInput' = outcome.jsonInput
       /\ formatMode' = outcome.formatMode
       /\ notification' = outcome.notification
  /\ ParseEffect(parsedData, selectedData, error)
  /\ UNCHANGED <<isProcessing, aiMode, generatedTypes, repairCalls, typesCalls>>
  /\ Render(isExpanded)

\* ------------------------------------------------- clear, copy, upload, edit
handleClear ==
  /\ jsonInput' = <<>>
  /\ generatedTypes' = Null
  /\ aiMode' = "null"
  /\ ParseEffect(null, null, Null)
  /\ UNCHANGED <<isProcessing, notification, formatMode, repairCalls, typesCalls>>
  /\ Render(isExpanded)

\* handleUpload, when the file is read: the buffer is the file's text.
handleUpload(text) ==
  /\ SetJsonInput(text)
  /\ UNCHANGED <<isProcessing, notification, aiMode, generatedTypes, formatMode,
                 repairCalls, typesCalls>>
  /\ Render(isExpanded)

\* The editor's onChange: the user has edited the text to val.
onChange(val) ==
  /\ EditorShown
  /\ SetJsonInput(val)
  /\ UNCHANGED <<isProcessing, notification, aiMode, generatedTypes, formatMode,
                 repairCalls, typesCalls>>
  /\ Render(isExpanded)

\* ---------------------------------------------------- the AI collaborators
\* The outstanding calls the model follows at most (the guards keep it at 1).
MaxCalls == 2

\* A Fix handler that does not look at isProcessing.
handleAiFixUnguarded ==
  /\ Truthy(error)
  /\ repairCalls < MaxCalls
  /\ isProcessing' = TRUE
  /\ aiMode' = "repair"
  /\ repairCalls' = repairCalls + 1
  /\ UNCHANGED <<jsonInput, parsedData, selectedData, error, notification, generatedTypes,
                 formatMode, isExpanded, typesCalls>>

\* A click on Fix (enabled unless isProcessing or there is no error):
\* handleAiFix up to its await.
handleAiFix ==
  /\ ~isProcessing /\ Truthy(error)
  /\ repairCalls < MaxCalls
  /\ isProcessing' = TRUE
  /\ aiMode' = "repair"
  /\ repairCalls' = repairCalls + 1
  /\ UNCHANGED <<jsonInput, parsedData, selectedData, error, notification, generatedTypes,
                 formatMode, isExpanded, typesCalls>>

\* A completion that applies the repair only while the buffer still has
\* its error.
AiFixResolvedIfStillInvalid(result) ==
  /\ repairCalls > 0
  /\ repairCalls' = repairCalls - 1
  /\ isProcessing' = FALSE
  /\ aiMode' = "null"
  /\ IF Truthy(result.error)
     THEN /\ showNotification(<<"AI Fix Failed: ">> \o result.error.str)
          /\ jsonInput' = jsonInput
     ELSE /\ showNotification(<<"JSON Repaired by Gemini AI">>)
          /\ jsonInput' = IF Truthy(error) THEN result.content ELSE jsonInput
  /\ ParseEffect(parsedData, selectedData, error)
  /\ UNCHANGED <<generatedTypes, formatMode, typesCalls>>
  /\ Render(isExpanded)

\* A completion that sets the buffer to the result's content even when the
\* result is an error.
AiFixResolvedAppliesContent(result) ==
  /\ repairCalls > 0
  /\ repairCalls' = repairCalls - 1
  /\ isProcessing' = FALSE
  /\ aiMode' = "null"
  /\ IF Truthy(result.error)
     THEN showNotification(<<"AI Fix Failed: ">> \o result.error.str)
     ELSE showNotification(<<"JSON Repaired by Gemini AI">>)
  /\ jsonInput' = result.content
  /\ ParseEffect(parsedData, selectedData, error)
  /\ UNCHANGED <<generatedTypes, formatMode, typesCalls>>
  /\ Render(isExpanded)

\* fixMalformedJson resolves with result: handleAiFix after its await.
AiFixResolved(result) ==
  /\ repairCalls > 0
  /\ repairCalls' = repairCalls - 1
  /\ isProcessing' = FALSE
  /\ aiMode' = "null"
  /\ IF Truthy(result.error)
     THEN /\ showNotification(<<"AI Fix Failed: ">> \o result.error.str)
          /\ jsonInput' = jsonInput
     ELSE /\ showNotification(<<"JSON Repaired by Gemini AI">>)
          /\ jsonInput' = result.content
  /\ ParseEffect(parsedData, selectedData, error)
  /\ UNCHANGED <<generatedTypes, formatMode, typesCalls>>
  /\ Render(isExpanded)

\* A TS Types button whose handler does not test the buffer for blankness.
TypesButtonNoBlankCheck ==
  /\ ~isProcessing /\ ~Truthy(error)
  /\ IF Truthy(generatedTypes)
     THEN /\ generatedTypes' = Null
          /\ UNCHANGED <<isProcessing, aiMode, notification, typesCalls>>
     ELSE /\ typesCalls < MaxCalls
          /\ isProcessing' = TRUE
          /\ aiMode' = "types"
          /\ typesCalls' = typesCalls + 1
          /\ UNCHANGED <<notification, generatedTypes>>
  /\ UNCHANGED <<jsonInput, parsedData, selectedData, error, formatMode, repairCalls>>
  /\ Render(isExpanded)

\* A click on TS Types / Close Types (enabled unless isProcessing or there
\* is an error): closes the types view when it is open, else
\* handleGenerateTypes up to its await.
TypesButton ==
  /\ ~isProcessing /\ ~Truthy(error)
  /\ IF Truthy(generatedTypes)
     THEN /\ generatedTypes' = Null
          /\ UNCHANGED <<isProcessing, aiMode, notification, typesCalls>>
     ELSE IF Truthy(error) \/ IsBlank(jsonInput)
     THEN /\ showNotification(<<"Please provide valid JSON first.">>)
          /\ UNCHANGED <<isProcessing, aiMode, generatedTypes, typesCalls>>
     ELSE /\ typesCalls < MaxCalls
          /\ isProcessing' = TRUE
          /\ aiMode' = "types"
          /\ typesCalls' = typesCalls + 1
          /\ UNCHANGED <<notification, generatedTypes>>
  /\ UNCHANGED <<jsonInput, parsedData, selectedData, error, formatMode, repairCalls>>
  /\ Render(isExpanded)

\* A codegen completion that clears isProcessing on success only.
TypesResolvedStaysBusy(result) ==
  /\ typesCalls > 0
  /\ typesCalls' = typesCalls - 1
  /\ IF Truthy(result.error)
     THEN /\ showNotification(<<"Gen Types Failed: ">> \o result.error.str)
          /\ aiMode' = "null"
          /\ UNCHANGED <<generatedTypes, isProcessing>>
     ELSE /\ generatedTypes' = Some(result.content)
          /\ showNotification(<<"TypeScript Interfaces Generated">>)
          /\ isProcessing' = FALSE
          /\ UNCHANGED aiMode
  /\ UNCHANGED <<jsonInput, parsedData, selectedData, error, formatMode, repairCalls>>
  /\ Render(isExpanded)

\* generateTypeScriptInterfaces resolves with result: handleGenerateTypes
\* after its await.
TypesResolved(result) ==
  /\ typesCalls > 0
  /\ typesCalls' = typesCalls - 1
  /\ isProcessing' = FALSE
  /\ IF Truthy(result.error)
     THEN /\ showNotification(<<"Gen Types Failed: ">> \o result.error.str)
          /\ aiMode' = "null"
          /\ UNCHANGED generatedTypes
     ELSE /\ generatedTypes' = Some(result.content)
          /\ showNotification(<<"TypeScript Interfaces Generated">>)
          /\ UNCHANGED aiMode
  /\ UNCHANGED <<jsonInput, parsedData, selectedData, error, formatMode, repairCalls>>
  /\ Render(isExpanded)

\* ------------------------------------------------- the main tree's handlers
\* The composite, non-empty nodes: those rendered with a toggler.
HasToggler(value, pos) == isObject(ValueAt(value, pos)) /\ ~isEmpty(ValueAt(value, pos))
\* A toggle whose flag is shared by the nodes of one depth.
FlippedAtDepth(tree, pos) ==
  [q \in DOMAIN tree |-> IF Len(q) = Len(pos) THEN ~tree[pos] ELSE tree[q]]

\* The instances of a tree after setIsExpanded(!isExpanded) at pos.
Flipped(tree, pos) == [tree EXCEPT ![pos] = ~tree[pos]]

\* A click on the toggler of the mounted composite node at pos.
toggleExpand(pos) ==
  /\ pos \in DOMAIN isExpanded
  /\ HasToggler(parsedData, pos)
  /\ UNCHANGED <<jsonInput, parsedData, selectedData, error, isProcessing, notification,
                 aiMode, generatedTypes, formatMode, repairCalls, typesCalls>>
  /\ Render(Flipped(isExpanded, pos))

\* A selection that also remounts the main tree, every node expanded.
onNodeSelectRemounts(pos) ==
  /\ pos \in DOMAIN isExpanded
  /\ selectedData' = ValueAt(parsedData, pos)
  /\ UNCHANGED <<jsonInput, parsedData, error, isProcessing, notification, aiMode,
                 generatedTypes, formatMode, repairCalls, typesCalls>>
  /\ Render(NoTree)

\* A click on the mounted node at pos: handleSelect, then App's onNodeSelect.
onNodeSelect(pos) ==
  /\ pos \in DOMAIN isExpanded
  /\ selectedData' = ValueAt(parsedData, pos)
  /\ UNCHANGED <<jsonInput, parsedData, error, isProcessing, notification, aiMode,
                 generatedTypes, formatMode, isExpanded, repairCalls, typesCalls>>

\* A click on the copy button of the mounted node at pos: handleCopy, then
\* App's onNodeCopy with the node's path prop.
onNodeCopy(pos) ==
  /\ pos \in DOMAIN isExpanded
  /\ \E path \in {NodeProps(parsedData, pos).path} :
       showNotification(<<"Copied value from ">> \o (IF path # <<>> THEN path ELSE <<"root">>))
  /\ UNCHANGED <<jsonInput, parsedData, selectedData, error, isProcessing, aiMode,
                 generatedTypes, formatMode, isExpanded, repairCalls, typesCalls>>

\* -------------------------------------------------------------------- Next
Next ==
  \/ handleEscape
  \/ handleUnescape
  \/ \E mode \in Modes : ToggleFormat(mode)
  \/ handleClear
  \/ \E text \in Files : handleUpload(text)
  \/ \E val \in Texts : onChange(val)
  \/ handleAiFix
  \/ \E result \in RepairResults : AiFixResolved(result)
  \/ TypesButton
  \/ \E result \in TypesResults : TypesResolved(result)
  \/ \E pos \in DOMAIN isExpanded : toggleExpand(pos)
  \/ \E pos \in DOMAIN isExpanded : onNodeSelect(pos)
  \/ \E pos \in DOMAIN isExpanded : onNodeCopy(pos)
  \/ NotificationTimeout

Spec == Init /\ [][Next]_vars

\* The tree view, on each of the documents: the session after the user has
\* replaced the demo document by one of them, followed through the mode
\* switches and the tree's own handlers.
InitTree == \E text \in Documents : InitWith(text)
NextTree ==
  \/ \E mode \in Modes : ToggleFormat(mode)
  \/ \E pos \in DOMAIN isExpanded : toggleExpand(pos)
  \/ \E pos \in DOMAIN isExpanded : onNodeSelect(pos)
  \/ \E pos \in DOMAIN isExpanded : onNodeCopy(pos)
  \/ NotificationTimeout
SpecTree == InitTree /\ [][NextTree]_vars

\* escapeString and unescapeString, on every string of the alphabet up to
\* MaxEscLen: the session after the user has replaced the demo document by
\* the string, followed through Escape and Unescape.
InitEscape == \E text \in Strings(MaxEscLen) : InitWith(text)
NextEscape == handleEscape \/ handleUnescape
SpecEscape == InitEscape /\ [][NextEscape]_vars

\* ------------------------------------------------------------------ claims
\* C1: for every string s over the alphabet of the escapes,
\* unescapeString(escapeString(s)) = s. Stated of the buffer, which
\* SpecEscape starts at every such string.
C1_RoundTrip == unescapeString(escapeString(jsonInput)) = jsonInput

\* C2, as claimed: a switch into raw mode from pretty or tree leaves the
\* buffer as it was.
C2_RawSwitchKeepsBuffer ==
  [][(formatMode \in {"pretty", "tree"} /\ ToggleFormat("raw")) => jsonInput' = jsonInput]_vars

\* C2, amended: a switch into raw mode from pretty or tree minifies. A
\* buffer that parses becomes the compact serialization of its parse; one
\* that does not, but whose unescaped form parses, becomes the compact
\* serialization of that (the recovery is attempted); in both cases the mode
\* becomes raw. Only when neither parses are the buffer and the mode left
\* as they were.
C2_RawSwitchMinifies ==
  [][(formatMode \in {"pretty", "tree"} /\ ToggleFormat("raw")) =>
       IF Parses(jsonInput)
       THEN jsonInput' = Compact(JSONparse(jsonInput).val) /\ formatMode' = "raw"
       ELSE IF Parses(unescapeString(jsonInput))
       THEN /\ jsonInput' = Compact(JSONparse(unescapeString(jsonInput)).val)
            /\ formatMode' = "raw"
       ELSE jsonInput' = jsonInput /\ formatMode' = formatMode]_vars

\* C2's case: the switch into raw has recovered an escaped document.
C2_Witness ==
  /\ formatMode = "raw"
  /\ notification = Some(<<"Auto-unescaped & Minified">>)
  /\ jsonInput = Compact(JSONparse(unescapeString(T_ESCAPED)).val)
  /\ jsonInput # T_ESCAPED

RECURSIVE AccessorPath(_, _)
\* The path C3 describes: the accessors from the root, an array element as
\* [index], an object member as .key, bare at the root.
AccessorPath(value, pos) ==
  IF pos = <<>> THEN <<>>
  ELSE LET front == SubSeq(pos, 1, Len(pos) - 1)
           key == pos[Len(pos)]
       IN  IF isArray(ValueAt(value, front))
           THEN AccessorPath(value, front) \o <<"[">> \o key \o <<"]">>
           ELSE IF front = <<>> THEN key
           ELSE AccessorPath(value, front) \o <<".">> \o key

\* C3: the path prop of every node of the tree (what its copy button hands
\* to onCopy) is the concatenation of the accessors from the root.
C3_PathIsAccessors ==
  \A pos \in DOMAIN isExpanded :
    NodeProps(parsedData, pos).path = AccessorPath(parsedData, pos)

\* C4: no two nodes of the tree, the root included, have the same path.
C4_PathsInjective ==
  \A p, q \in DOMAIN isExpanded :
    p # q => NodeProps(parsedData, p).path # NodeProps(parsedData, q).path

IsProperPrefix(p, q) == Len(p) < Len(q) /\ SubSeq(q, 1, Len(p)) = p
\* The main tree after a click on the toggler at pos, as toggleExpand
\* leaves it.
AfterToggle(tree, pos) == Mount(parsedData, Flipped(tree, pos))

\* C5: a collapsed descendant of an expanded node is still collapsed when
\* it is shown again after its ancestor has been collapsed and expanded.
C5_DescendantStaysCollapsed ==
  \A p, q \in DOMAIN isExpanded :
    (IsProperPrefix(p, q) /\ ~isExpanded[q]) =>
      LET shown == AfterToggle(AfterToggle(isExpanded, p), p)
      IN  q \in DOMAIN shown /\ ~shown[q]

\* C6: from every state with a parse error the editor can be shown for the
\* same buffer by mode switches alone. A switch that changes an invalid
\* buffer replaces it by a valid one, and no switch makes a valid buffer
\* invalid, so the switches of such a sequence all keep the buffer; they
\* leave error and generatedTypes alone. If the editor is not shown, some
\* switch that keeps the buffer must therefore change the mode: this is
\* what the formula requires, and it is the least the claim requires.
C6_EditorReachable ==
  Truthy(error) =>
    \/ EditorShown
    \/ \E mode \in Modes :
         /\ toggleFormat(mode).jsonInput = jsonInput
         /\ toggleFormat(mode).formatMode # formatMode

\* The notifications of a recovery, and the one of a direct success.
AutoRecovered == {Some(<<"Auto-unescaped & Formatted">>), Some(<<"Auto-unescaped JSON">>)}
DirectSuccess == Some(<<"JSON Formatted">>)
\* The buffer of this state fails to parse and its unescaped form parses.
Recoverable == ~Parses(jsonInput) /\ Parses(unescapeString(jsonInput))
\* Neither the buffer of this state nor its unescaped form parses.
Unrecoverable == ~Parses(jsonInput) /\ ~Parses(unescapeString(jsonInput))
\* A step in which format is applied: a switch into pretty from another
\* mode (in pretty mode toggleFormat returns before it formats).
FormatStep == formatMode # "pretty" /\ ToggleFormat("pretty")

\* C7: format applied to a buffer that fails to parse and whose unescaped
\* form parses leaves the 2-space serialization of the parse of the
\* unescaped buffer in the buffer, makes the mode pretty and notifies of an
\* automatic recovery, not of a direct success. Stated of handleFormat on
\* every reachable buffer and of every step that applies format.
C7_FormatRecovers ==
  [][/\ Recoverable =>
          /\ handleFormat(jsonInput).jsonInput = Pretty(JSONparse(unescapeString(jsonInput)).val)
          /\ handleFormat(jsonInput).formatMode = "pretty"
          /\ handleFormat(jsonInput).notification \in AutoRecovered \ {DirectSuccess}
     /\ (Recoverable /\ FormatStep) =>
          /\ jsonInput' = Pretty(JSONparse(unescapeString(jsonInput)).val)
          /\ formatMode' = "pretty"
          /\ notification' \in AutoRecovered \ {DirectSuccess}
          /\ error' = Null]_vars

\* C7's case: a switch into pretty has recovered the escaped document.
C7_Witness ==
  /\ formatMode = "pretty"
  /\ notification = Some(<<"Auto-unescaped JSON">>)
  /\ jsonInput = Pretty(JSONparse(unescapeString(T_ESCAPED)).val)
  /\ ~Parses(T_ESCAPED)

\* C8, as claimed: format applied to a buffer for which both parses fail
\* leaves the buffer and the mode as they were, and the error afterwards
\* is the message of the direct parse.
C8_FormatFailureReportsFirst ==
  [][(Unrecoverable /\ FormatStep) =>
       /\ jsonInput' = jsonInput
       /\ formatMode' = formatMode
       /\ error' = Some(ErrorMessage(jsonInput))]_vars

\* C8, amended: format applied to a buffer for which both parses fail
\* leaves the buffer, the mode and the error as they were. For a buffer
\* that is not blank the error is the message of the direct parse, never
\* that of the recovery attempt; for a blank buffer, which fails both
\* parses too, the error is and stays none.
C8_FormatFailureKeepsError ==
  [][(Unrecoverable /\ FormatStep) =>
       /\ jsonInput' = jsonInput
       /\ formatMode' = formatMode
       /\ handleFormat(jsonInput) =
            Outcome(jsonInput, formatMode, Some(<<"Cannot format invalid JSON">>))
       /\ error' = error
       /\ error' = IF IsBlank(jsonInput) THEN Null ELSE Some(ErrorMessage(jsonInput))]_vars

\* C8's case: format has failed on a buffer whose two parses report
\* different messages, and the error is the direct one.
C8_Witness ==
  /\ jsonInput = T_HALF
  /\ formatMode # "pretty"
  /\ notification = Some(<<"Cannot format invalid JSON">>)
  /\ error = Some(ErrorMessage(T_HALF))
  /\ ErrorMessage(unescapeString(T_HALF)) # ErrorMessage(T_HALF)

\* C9: after every step that changes the buffer to a text that parses, the
\* error is none, the value is the parse of the new buffer and the
\* selection is its root. (A handler that sets the text the buffer already
\* holds is no change: the effect is keyed on the buffer and does not run.)
C9_ParseSuccessResets ==
  [][(jsonInput' # jsonInput /\ Parses(jsonInput')) =>
       /\ error' = Null
       /\ parsedData' = JSONparse(jsonInput').val
       /\ selectedData' = parsedData']_vars

\* C9's case: a repair has replaced an invalid buffer by a document, which
\* is now the value and the selection.
C9_Witness ==
  /\ notification = Some(<<"JSON Repaired by Gemini AI">>)
  /\ jsonInput = T_ARRAY
  /\ error = Null
  /\ parsedData = JSONparse(T_ARRAY).val
  /\ selectedData = parsedData

\* C10: after every step that changes the buffer to a non-blank text that
\* fails to parse, the value and the selection are those of before and the
\* error is the parser's message; and in no state with an error is the
\* tree of the value rendered.
C10_ParseFailureRetains ==
  [][/\ (jsonInput' # jsonInput /\ ~IsBlank(jsonInput') /\ ~Parses(jsonInput')) =>
          /\ parsedData' = parsedData
          /\ selectedData' = selectedData
          /\ error' = Some(ErrorMessage(jsonInput'))
     /\ Truthy(error) => (~TreeShown /\ isExpanded = NoTree)
     /\ Truthy(error') => (~TreeShown' /\ isExpanded' = NoTree)]_vars

\* C10's case: in tree mode, with a subtree selected, the buffer has been
\* replaced by a malformed text: value and selection are stale and the
\* error view stands in for the tree.
C10_Witness ==
  /\ formatMode = "tree"
  /\ jsonInput = T_MALFORMED
  /\ error = Some(ErrorMessage(T_MALFORMED))
  /\ parsedData # null
  /\ selectedData # parsedData
  /\ selectedData # null
  /\ TreeErrorShown
  /\ isExpanded = NoTree

\* C11: in every state at most one repair call and at most one codegen call
\* is outstanding, and while one is, isProcessing holds, which disables
\* both buttons: no step taken while a call of a kind is outstanding starts
\* another of that kind.
C11_OneOutstanding ==
  [][/\ repairCalls' <= 1 /\ typesCalls' <= 1
     /\ (repairCalls' + typesCalls' > 0) => isProcessing'
     /\ repairCalls > 0 => repairCalls' <= repairCalls
     /\ typesCalls > 0 => typesCalls' <= typesCalls]_vars

\* C11's case: a repair call is outstanding while the buffer still has the
\* error that enables Fix, and the button is disabled.
C11_Witness ==
  /\ repairCalls = 1
  /\ Truthy(error)
  /\ isProcessing
  /\ ~ENABLED handleAiFix

\* The results with which a call resolves successfully, and with an error.
Succeeded(results) == {result \in results : ~Truthy(result.error)}
Failed(results) == {result \in results : Truthy(result.error)}

\* C12: a repair call that resolves successfully leaves its content in the
\* buffer, whatever the buffer holds at that time: every step in which a
\* call resolves with content sets the buffer to it, from every state the
\* session can be in while the call is outstanding.
C12_RepairLastWriteWins ==
  [][\A result \in Succeeded(RepairResults) :
       AiFixResolved(result) => jsonInput' = result.content]_vars

\* C12's case: while a repair call is outstanding the buffer has been
\* replaced by a valid document that is not the repair's, and the
\* completion that overwrites it can be taken.
C12_Witness ==
  /\ repairCalls = 1
  /\ error = Null
  /\ Parses(jsonInput)
  /\ \E result \in Succeeded(RepairResults) :
       /\ jsonInput # result.content
       /\ ENABLED (AiFixResolved(result) /\ jsonInput' = result.content)

\* C13: a call that resolves with an error corrupts nothing: a repair's
\* completion leaves the buffer as it was, a codegen's leaves
\* generatedTypes as it was.
C13_FailureKeepsState ==
  [][/\ \A result \in Failed(RepairResults) :
          AiFixResolved(result) =>
            /\ jsonInput' = jsonInput
            /\ UNCHANGED <<parsedData, selectedData, error>>
     /\ \A result \in Failed(TypesResults) :
          TypesResolved(result) =>
            /\ generatedTypes' = generatedTypes
            /\ jsonInput' = jsonInput]_vars

\* C13's case: a repair has failed and the buffer still holds the
\* malformed text and its error.
C13_Witness ==
  /\ notification = Some(<<"AI Fix Failed: ", "API Key is missing.">>)
  /\ jsonInput = T_MALFORMED
  /\ error = Some(ErrorMessage(T_MALFORMED))
  /\ repairCalls = 0
  /\ ~isProcessing

\* C14: a switch to tree mode while the buffer is valid changes no text:
\* the mode becomes tree and the buffer, the value, the selection, the
\* error and every other field of the session are as they were (the tree
\* view mounts its nodes).
C14_TreeSwitchKeepsText ==
  [][(Parses(jsonInput) /\ ToggleFormat("tree")) =>
       /\ formatMode' = "tree"
       /\ UNCHANGED <<jsonInput, parsedData, selectedData, error, isProcessing, notification,
                      aiMode, generatedTypes, repairCalls, typesCalls>>]_vars

\* C14's case: the compact text that Raw left in the buffer is still there
\* after the switch to tree mode, and its tree is shown.
C14_Witness ==
  /\ formatMode = "tree"
  /\ notification = Some(<<"JSON Minified">>)
  /\ jsonInput = T_NESTED
  /\ jsonInput # Pretty(parsedData)
  /\ TreeShown

\* A switch into mode: toggleFormat returns at once on the active mode
\* unless it is tree.
SwitchInto(mode) == (mode = "pretty" => formatMode # "pretty") /\ ToggleFormat(mode)

\* C15: a switch into pretty or tree while the session has a parse error
\* attempts the recovery. If the unescaped buffer parses, the buffer
\* becomes the recovered text (its pretty serialization for pretty, the
\* unescaped text for tree), the requested mode becomes active and, the new
\* buffer parsed, the error is none. If it does not, the buffer and the
\* error are left as they were.
C15_SwitchRecovers ==
  [][\A mode \in {"pretty", "tree"} :
       (Truthy(error) /\ SwitchInto(mode)) =>
         IF Parses(unescapeString(jsonInput))
         THEN /\ jsonInput' = IF mode = "pretty"
                              THEN Pretty(JSONparse(unescapeString(jsonInput)).val)
                              ELSE unescapeString(jsonInput)
              /\ formatMode' = mode
              /\ error' = Null
              /\ parsedData' = JSONparse(unescapeString(jsonInput)).val
         ELSE /\ jsonInput' = jsonInput
              /\ error' = error]_vars

\* C15's case: the switch to tree has recovered the escaped document and
\* its tree is shown.
C15_Witness ==
  /\ formatMode = "tree"
  /\ notification = Some(<<"Auto-unescaped for Tree View">>)
  /\ jsonInput = unescapeString(T_ESCAPED)
  /\ jsonInput # T_ESCAPED
  /\ error = Null
  /\ TreeShown

RECURSIVE ClosingQuote(_, _)
\* The index of the quote that closes the string literal whose characters
\* start at i in text (Len(text) + 1: none).
ClosingQuote(text, i) ==
  IF i > Len(text) THEN i
  ELSE IF text[i] = QUOTE THEN i
  ELSE IF text[i] = BSL THEN ClosingQuote(text, i + 2)
  ELSE ClosingQuote(text, i + 1)

RECURSIVE KeysFrom(_, _)
\* The member names of a JSON text from index i on, in the order they
\* appear: the string literals a colon follows.
KeysFrom(text, i) ==
  IF i > Len(text) THEN <<>>
  ELSE IF text[i] # QUOTE THEN KeysFrom(text, i + 1)
  ELSE LET close == ClosingQuote(text, i + 1)
           after == SkipWs(text, close + 1)
       IN  IF after <= Len(text) /\ text[after] = ":"
           THEN <<SubSeq(text, i + 1, close - 1)>> \o KeysFrom(text, close + 1)
           ELSE KeysFrom(text, close + 1)
KeysInText(text) == KeysFrom(text, 1)

RECURSIVE KeysInValue(_)
RECURSIVE KeysInMembers(_, _)
\* The member names of a value in the order the tree view lists them
\* (Object.keys of each object, the members of a member before the next).
KeysInValue(value) ==
  IF isObject(value) THEN KeysInMembers(value, 1) ELSE <<>>
KeysInMembers(value, i) ==
  IF i > Len(ObjectKeys(value)) THEN <<>>
  ELSE (IF isArray(value) THEN <<>> ELSE <<ObjectKeys(value)[i]>>)
       \o KeysInValue(value.items[i]) \o KeysInMembers(value, i + 1)

\* C16: for a buffer that parses, format and minify emit the members of
\* every object in the order of the buffer's text, and the tree view lists
\* them in that order.
C16_KeyOrderPreserved ==
  Parses(jsonInput) =>
    /\ KeysInText(Pretty(JSONparse(jsonInput).val)) = KeysInText(jsonInput)
    /\ KeysInText(Compact(JSONparse(jsonInput).val)) = KeysInText(jsonInput)
    /\ KeysInValue(parsedData) = KeysInText(jsonInput)

\* The characters escapeString replaces, and the second characters of the
\* sequences it replaces them by.
Escaped == {BSL, QUOTE, LF, CR, TAB, BS, FF}
EscapeLetters == {BSL, QUOTE, "n", "r", "t", "b", "f"}
RECURSIVE WellEscaped(_, _)
\* Read from index i on, out is made of escape sequences (a backslash and
\* an escape letter) and of characters escapeString does not replace.
WellEscaped(out, i) ==
  IF i > Len(out) THEN TRUE
  ELSE IF out[i] = BSL
  THEN i + 1 <= Len(out) /\ out[i + 1] \in EscapeLetters /\ WellEscaped(out, i + 2)
  ELSE out[i] \notin Escaped /\ WellEscaped(out, i + 1)

\* C17: escapeString(s) holds no raw line feed, carriage return, tab,
\* backspace or form feed, and each of its quotes and backslashes is part
\* of a two-character escape sequence; every replaced character of s
\* accounts for exactly one more character. Stated of the buffer of every
\* state.
C17_EscapeOutputClean ==
  /\ WellEscaped(escapeString(jsonInput), 1)
  /\ Len(escapeString(jsonInput)) =
       Len(jsonInput) + Cardinality({i \in 1..Len(jsonInput) : jsonInput[i] \in Escaped})

\* C17's case: Escape has acted on a backslash followed by a quote: the
\* backslash was doubled before the quote's backslash was inserted.
C17_Witness ==
  /\ notification = Some(<<"Text Escaped">>)
  /\ jsonInput = <<BSL, BSL, BSL, QUOTE>>
  /\ jsonInput = escapeString(<<BSL, QUOTE>>)

\* C18: a toggle of the node at pos flips that node's flag and leaves every
\* node that is not below it (its ancestors, its siblings and what is
\* below them) mounted with the flag it had; the value, the buffer and the
\* selection are as they were.
C18_ToggleIsLocal ==
  [][\A pos \in DOMAIN isExpanded :
       toggleExpand(pos) =>
         /\ isExpanded'[pos] = ~isExpanded[pos]
         /\ \A q \in DOMAIN isExpanded :
              (q # pos /\ ~IsProperPrefix(pos, q)) =>
                q \in DOMAIN isExpanded' /\ isExpanded'[q] = isExpanded[q]
         /\ UNCHANGED <<parsedData, jsonInput, selectedData>>]_vars

\* C18's case: of two sibling arrays under an expanded root the first has
\* been collapsed, and the second is still expanded with its element shown.
C18_Witness ==
  /\ jsonInput = T_SIBLINGS
  /\ TreeShown
  /\ isExpanded[<<>>]
  /\ ~isExpanded[<< <<"0">> >>]
  /\ isExpanded[<< <<"1">> >>]
  /\ << <<"1">>, <<"0">> >> \in DOMAIN isExpanded
  /\ << <<"0">>, <<"0">> >> \notin DOMAIN isExpanded

\* C19: a click on a node makes its value the selection and changes
\* nothing else: the buffer, the value, the error, the mode and the
\* expanded state of every node of the main tree are as they were.
C19_SelectIsLocal ==
  [][\A pos \in DOMAIN isExpanded :
       onNodeSelect(pos) =>
         /\ selectedData' = ValueAt(parsedData, pos)
         /\ UNCHANGED <<jsonInput, parsedData, error, formatMode, isExpanded>>]_vars

\* C19's case: the member a is the selection, and the node stays collapsed
\* as it was when it was clicked.
C19_Witness ==
  /\ TreeShown
  /\ jsonInput = T_NESTED
  /\ selectedData = ValueAt(parsedData, << <<"a">> >>)
  /\ selectedData # parsedData
  /\ ~isExpanded[<< <<"a">> >>]

\* C20: a codegen call is started only on a buffer that is not blank and
\* parses: every step that starts one leaves from a state with such a
\* buffer and no error.
C20_CodegenOnValidOnly ==
  [][typesCalls' > typesCalls =>
       /\ ~IsBlank(jsonInput)
       /\ Parses(jsonInput)
       /\ ~Truthy(error)
       /\ jsonInput' = jsonInput]_vars

\* C20's case: a codegen call has been started and is outstanding on a
\* buffer that parses.
C20_Witness ==
  /\ typesCalls = 1
  /\ isProcessing
  /\ aiMode = "types"
  /\ error = Null
  /\ Parses(jsonInput)

\* C21: a click on Return to Editor in the error view of tree mode leaves
\* tree mode: the mode afterwards is not tree and the editor is shown.
C21_ReturnToEditorLeavesTree ==
  [][(TreeErrorShown /\ ToggleFormat("pretty")) =>
       (formatMode' # "tree" /\ EditorShown')]_vars

\* C22: the error is none exactly when the buffer is blank or parses, and
\* the value is the parse of a buffer that is not blank and parses.
C22_ErrorConsistent ==
  /\ (error = Null) <=> (IsBlank(jsonInput) \/ Parses(jsonInput))
  /\ (~IsBlank(jsonInput) /\ Parses(jsonInput)) => parsedData = JSONparse(jsonInput).val

\* C22's case: Unescape has turned the escaped document, which had an
\* error, into one that parses, and the error is gone.
C22_Witness ==
  /\ notification = Some(<<"Text Unescaped">>)
  /\ jsonInput = unescapeString(T_ESCAPED)
  /\ jsonInput # T_ESCAPED
  /\ error = Null
  /\ parsedData = JSONparse(jsonInput).val

\* The subtrees of a value, the value itself included.
Subtrees(value) == {ValueAt(value, pos) : pos \in DOMAIN Mount(value, NoTree)}

\* C23: the selection is none or a subtree of the stored value, never one
\* of a value that a later parse has replaced.
C23_SelectionInValue ==
  selectedData = null \/ selectedData \in Subtrees(parsedData)

\* C23's case: a member was selected in the tree and the buffer then got a
\* text that fails to parse: the stale selection is still a subtree of the
\* stale value.
C23_Witness ==
  /\ jsonInput = T_HALF
  /\ Truthy(error)
  /\ selectedData # null
  /\ selectedData # parsedData
  /\ selectedData \in Subtrees(parsedData)

\* C24: while a request is outstanding aiMode names its kind.
C24_AiModeNamesRequest ==
  isProcessing =>
    \/ repairCalls > 0 /\ aiMode = "repair"
    \/ typesCalls > 0 /\ aiMode = "types"

\* The session under the assumption that a collaborator's call resolves:
\* a completion that stays possible is eventually taken.
SpecLive ==
  /\ Init
  /\ [][Next]_vars
  /\ WF_vars(\E result \in RepairResults : AiFixResolved(result))
  /\ WF_vars(\E result \in TypesResults : TypesResolved(result))

\* C25: isProcessing holds exactly while a request is outstanding, and,
\* the calls resolving, whenever it holds it is eventually false again.
C25_ProcessingEnds ==
  /\ [](isProcessing <=> (repairCalls + typesCalls > 0))
  /\ isProcessing ~> ~isProcessing

\* C25's case: a codegen call has resolved and the guard is idle again.
C25_Witness ==
  /\ ~isProcessing
  /\ repairCalls + typesCalls = 0
  /\ notification = Some(<<"TypeScript Interfaces Generated">>)
  /\ Truthy(generatedTypes)

\* C26: a codegen call started before a Clear does not open the types view
\* when it resolves. While a codegen call is outstanding aiMode is "types"
\* from its start on, and only Clear sets it to none before the call
\* resolves: a state with the call outstanding and aiMode none is a state
\* after a Clear that followed the call's start, with no new invocation
\* since. No step from such a state sets generatedTypes.
C26_ClearKeepsTypesClosed ==
  [][(typesCalls > 0 /\ aiMode = "null") => ~Truthy(generatedTypes')]_vars

\* C27: whenever the buffer is not blank and parses, the value and the
\* selection are not those of the session without a document, and tree
\* mode renders the tree of the value, not the placeholder.
C27_ParsedIsDistinguishable ==
  (~IsBlank(jsonInput) /\ Parses(jsonInput)) =>
    /\ parsedData # null
    /\ selectedData # null
    /\ TreeModeShown => TreeShown
=============================================================================
